---- MODULE Spec2Model ----
(***************************************************************************)
(* Model of src/app.py: the ideas/votes store (SQLite, one shared          *)
(* connection in autocommit mode), the process-wide threading.Lock, and    *)
(* the five database utility functions add_idea, has_voted, toggle_vote,   *)
(* delete_idea and fetch_ideas, called by concurrently running threads.    *)
(***************************************************************************)
EXTENDS Integers, Sequences, FiniteSets, Bags, TLC

\* ------------------------------------------------------------------ bounds
NumThreads == 2      \* threads running the script concurrently
NumUsers   == 2      \* distinct session tokens (USER_ID values)
MaxIdeas   == 2      \* ideas ever inserted (AUTOINCREMENT values handed out)
MaxLen     == 1      \* longest text typed into the form
MaxTime    == 1      \* CURRENT_TIMESTAMP readings are 0..MaxTime
MaxText    == 3      \* longest text typed in the runs that only add and delete

Threads == 1..NumThreads
Users   == 1..NumUsers
IdeaIds == 1..MaxIdeas
Times   == 0..MaxTime

\* ------------------------------------------------------------------ values
Categories == {"food", "festival"}
Chars      == {" ", "a"}
None       == <<"None">>
Strings    == UNION {[1..n -> Chars] : n \in 0..MaxLen}
RawContents == Strings \cup {None}
Texts      == UNION {[1..n -> Chars] : n \in 0..MaxText} \cup {None}
NULL       == <<>>
NoArg      == [op |-> "none"]
NoRet      == [op |-> "none", args |-> <<>>, val |-> None, exc |-> "none"]

\* ------------------------------------------------------------------ state
VARIABLES
  ideas,         \* table ideas: set of rows
  seq,           \* sqlite_sequence entry of ideas: largest id ever handed out
  votes,         \* table votes: bag of <<idea_id, user_id>> rows (a row's own
                 \* id serves only to delete the row just selected)
  foreign_keys,  \* whether this SQLite build enforces foreign keys
  lock,          \* threading.Lock: TRUE while held
  pc,            \* position of each thread
  arg,           \* arguments and locals of each thread's current call
  out,           \* what the step just taken returned to its caller, if anything
  ntog,          \* per (idea, user): toggles completed since the pair was first
                 \* seen unvoted on the existing idea, modulo 2; -1 before that
  base           \* votes table when the observed race began

vars == <<ideas, seq, votes, foreign_keys, lock, pc, arg, out, ntog, base>>

\* ------------------------------------------------------------------ str
IsSpace(c) == c = " "

RECURSIVE lstrip(_)
lstrip(s) == IF s # <<>> /\ IsSpace(Head(s)) THEN lstrip(Tail(s)) ELSE s

RECURSIVE rstrip(_)
rstrip(s) ==
  IF s # <<>> /\ IsSpace(s[Len(s)]) THEN rstrip(SubSeq(s, 1, Len(s) - 1)) ELSE s

\* Faulty variant of strip_content: the text is not stripped.
strip_content_unstripped(content) ==
  IF content = None \/ content = <<>> THEN <<>> ELSE content

\* Faulty variant of strip_content: (content or "").lstrip()
strip_content_lstrip(content) ==
  LET c == IF content = None \/ content = <<>> THEN <<>> ELSE content
  IN  lstrip(c)

\* (content or "").strip()
strip_content(content) ==
  LET c == IF content = None \/ content = <<>> THEN <<>> ELSE content
  IN  rstrip(lstrip(c))

\* ------------------------------------------------------------------ SQL
IdeaExists(is, idea_id) == \E i \in is : i.id = idea_id

\* Faulty variant of InsertIdea: id declared INTEGER PRIMARY KEY without
\* AUTOINCREMENT, so the new id is one more than the largest id in the table.
InsertIdeaRowid(is, s, category, content, ts) ==
  LET maxid == IF is = {} THEN 0
               ELSE (CHOOSE x \in is : \A y \in is : y.id <= x.id).id
  IN  is \cup {[id |-> maxid + 1, category |-> category, content |-> content,
                votes |-> 0, created_at |-> ts]}

\* INSERT INTO ideas(category, content, votes) VALUES (?, ?, 0)
\* id is AUTOINCREMENT: one more than the largest id ever used. Callers pass
\* a category of Categories, so CHECK(category IN ...) passes.
InsertIdea(is, s, category, content, ts) ==
  is \cup {[id |-> s + 1, category |-> category, content |-> content,
            votes |-> 0, created_at |-> ts]}

\* SELECT id FROM votes WHERE idea_id = ? AND user_id = ? LIMIT 1
SelectVote(vs, idea_id, user_id) ==
  IF BagIn(<<idea_id, user_id>>, vs) THEN <<idea_id, user_id>> ELSE NULL

\* DELETE FROM votes WHERE id = ?   (the row found by SelectVote)
DeleteVote(vs, row) ==
  IF BagIn(row, vs) THEN vs (-) SetToBag({row}) ELSE vs

\* INSERT INTO votes(idea_id, user_id) VALUES (?, ?)
\* UNIQUE(idea_id, user_id); FOREIGN KEY (idea_id) REFERENCES ideas(id),
\* the latter enforced only when foreign keys are on.
InsertVote(vs, is, fk, idea_id, user_id) ==
  IF BagIn(<<idea_id, user_id>>, vs) \/ (fk /\ ~IdeaExists(is, idea_id))
  THEN [err |-> "IntegrityError", votes |-> vs]
  ELSE [err |-> "ok", votes |-> vs (+) SetToBag({<<idea_id, user_id>>})]

\* Faulty variant of DeleteIdeaRows: WHERE id <= ?
DeleteIdeaRowsUpTo(is, idea_id) == {i \in is : i.id > idea_id}

\* DELETE FROM ideas WHERE id = ?
DeleteIdeaRows(is, idea_id) == {i \in is : i.id # idea_id}

\* ON DELETE CASCADE, applied only when foreign keys are on and a row went.
CascadeVotes(vs, is, fk, idea_id) ==
  IF fk /\ IdeaExists(is, idea_id)
  THEN LET keep == {r \in BagToSet(vs) : r[1] # idea_id}
       IN  [r \in keep |-> vs[r]]
  ELSE vs


\* ------------------------------------------------------------------ reads
\* SELECT idea_id, COUNT(*) AS cnt FROM votes GROUP BY idea_id, for one idea_id
RECURSIVE CountRows(_, _)
CountRows(vs, rows) ==
  IF rows = {} THEN 0
  ELSE LET r == CHOOSE x \in rows : TRUE
       IN  CopiesIn(r, vs) + CountRows(vs, rows \ {r})

VoteCount(vs, idea_id) == CountRows(vs, {r \in BagToSet(vs) : r[1] = idea_id})

\* has_voted: SELECT 1 FROM votes WHERE idea_id = ? AND user_id = ? LIMIT 1
has_voted(vs, idea_id, user_id) == SelectVote(vs, idea_id, user_id) # NULL

\* Faulty variant of ResultRow: the stored votes column instead of the count.
ResultRowStored(i, vs, user_id) ==
  [id |-> i.id, content |-> i.content, votes |-> i.votes,
   created_at |-> i.created_at,
   i_voted |-> CopiesIn(<<i.id, user_id>>, vs) > 0]

\* One joined row of fetch_ideas' SELECT for idea i.
ResultRow(i, vs, user_id) ==
  [id |-> i.id, content |-> i.content, votes |-> VoteCount(vs, i.id),
   created_at |-> i.created_at,
   i_voted |-> CopiesIn(<<i.id, user_id>>, vs) > 0]

\* LEFT JOIN my: one output row per vote row of (i.id, user_id), one if none.
JoinCopies(i, vs, user_id) ==
  IF CopiesIn(<<i.id, user_id>>, vs) = 0 THEN 1 ELSE CopiesIn(<<i.id, user_id>>, vs)

\* Faulty variant of OrderBefore: ORDER BY votes, datetime(i.created_at), i.id
OrderBeforeAscending(a, b) ==
  \/ a.votes < b.votes
  \/ a.votes = b.votes /\ a.created_at < b.created_at
  \/ a.votes = b.votes /\ a.created_at = b.created_at /\ a.id < b.id

\* ORDER BY votes DESC, datetime(i.created_at) ASC, i.id ASC
OrderBefore(a, b) ==
  \/ a.votes > b.votes
  \/ a.votes = b.votes /\ a.created_at < b.created_at
  \/ a.votes = b.votes /\ a.created_at = b.created_at /\ a.id < b.id

RECURSIVE Repeat(_, _)
Repeat(x, n) == IF n <= 0 THEN <<>> ELSE <<x>> \o Repeat(x, n - 1)

RECURSIVE SortJoin(_, _, _)
SortJoin(is, vs, user_id) ==
  IF is = {} THEN <<>>
  ELSE LET first == CHOOSE i \in is : \A o \in is \ {i} :
                      OrderBefore(ResultRow(i, vs, user_id), ResultRow(o, vs, user_id))
       IN  Repeat(ResultRow(first, vs, user_id), JoinCopies(first, vs, user_id))
           \o SortJoin(is \ {first}, vs, user_id)

fetch_ideas(is, vs, category, user_id) ==
  SortJoin({i \in is : i.category = category}, vs, user_id)

\* ------------------------------------------------------------------ observers
\* ntog[<<x, s>>] counts, modulo 2, the toggle_vote(x, s) calls that have written
\* since x existed with no vote of s; it is -1 while there is no such start,
\* and stays -2 in runs that do not observe the pairs.
Pairs == IdeaIds \X Users

Observing == \A p \in Pairs : ntog[p] # -2

NtogAfterInsertIdea(new_id) ==
  [p \in Pairs |-> IF Observing /\ p[1] = new_id
                   THEN (IF BagIn(p, votes) THEN -1 ELSE 0)
                   ELSE ntog[p]]

NtogAfterToggle(idea_id, user_id, vs) ==
  LET p == <<idea_id, user_id>>
  IN  IF ~Observing \/ ~IdeaExists(ideas, idea_id) THEN ntog
      ELSE IF ntog[p] >= 0 THEN [ntog EXCEPT ![p] = (ntog[p] + 1) % 2]
      ELSE [ntog EXCEPT ![p] = IF BagIn(p, vs) THEN -1 ELSE 0]

NtogAfterDeleteIdea(idea_id) ==
  [p \in Pairs |-> IF Observing /\ p[1] = idea_id THEN -1 ELSE ntog[p]]

\* A call returning val to its caller (exc = "none"), or raising exc.
Return(op, args, val) == [op |-> op, args |-> args, val |-> val, exc |-> "none"]
Raise(op, args, exc)  == [op |-> op, args |-> args, val |-> None, exc |-> exc]

\* ------------------------------------------------------------------ add_idea
\* lines 83-85 with blank text: return False before touching lock or store
add_idea_blank(t, texts) ==
  /\ pc[t] = "idle"
  /\ \E content \in texts :
       /\ strip_content(content) = <<>>
       /\ out' = Return("add_idea", <<content>>, FALSE)
  /\ UNCHANGED <<ideas, seq, votes, foreign_keys, lock, pc, arg, ntog, base>>

add_idea_reject(t) == add_idea_blank(t, RawContents)

\* the same with the longer texts
add_idea_reject_text(t) == add_idea_blank(t, Texts)

\* lines 83-86 with text left after strip(): go on to take the lock
add_idea_nonblank(t, texts) ==
  /\ pc[t] = "idle"
  /\ seq + Cardinality({u \in Threads : arg[u].op = "add_idea"}) < MaxIdeas
  /\ \E category \in Categories, content \in texts :
       /\ strip_content(content) # <<>>
       /\ arg' = [arg EXCEPT ![t] = [op |-> "add_idea", category |-> category,
                                     text |-> content,
                                     content |-> strip_content(content)]]
  /\ pc' = [pc EXCEPT ![t] = "add_lock"]
  /\ out' = NoRet
  /\ UNCHANGED <<ideas, seq, votes, foreign_keys, lock, ntog, base>>

add_idea_call(t) == add_idea_nonblank(t, RawContents)

\* the same with the longer texts
add_idea_call_text(t) == add_idea_nonblank(t, Texts)

\* Faulty variant of add_idea_acquire: the INSERT reached without waiting
\* for the lock.
add_idea_enter_unlocked(t) ==
  /\ pc[t] = "add_lock"
  /\ lock' = TRUE
  /\ pc' = [pc EXCEPT ![t] = "add_insert"]
  /\ out' = NoRet
  /\ UNCHANGED <<ideas, seq, votes, foreign_keys, arg, ntog, base>>

\* line 86: with lock
add_idea_acquire(t) ==
  /\ pc[t] = "add_lock"
  /\ ~lock
  /\ lock' = TRUE
  /\ pc' = [pc EXCEPT ![t] = "add_insert"]
  /\ out' = NoRet
  /\ UNCHANGED <<ideas, seq, votes, foreign_keys, arg, ntog, base>>

\* line 87: the INSERT (created_at is CURRENT_TIMESTAMP, a wall-clock reading);
\* leaving the with block releases the lock; line 88: return True
add_idea_insert(t) ==
  /\ pc[t] = "add_insert"
  /\ \E ts \in Times :
       ideas' = InsertIdea(ideas, seq, arg[t].category, arg[t].content, ts)
  /\ seq' = seq + 1
  /\ ntog' = NtogAfterInsertIdea(seq + 1)
  /\ lock' = FALSE
  /\ pc' = [pc EXCEPT ![t] = "idle"]
  /\ arg' = [arg EXCEPT ![t] = NoArg]
  /\ out' = Return("add_idea", <<arg[t].text>>, TRUE)
  /\ UNCHANGED <<votes, foreign_keys, base>>

\* ------------------------------------------------------------------ toggle_vote
toggle_vote_call(t) ==
  /\ pc[t] = "idle"
  /\ \E idea_id \in IdeaIds, user_id \in Users :
       /\ arg' = [arg EXCEPT ![t] = [op |-> "toggle_vote", idea_id |-> idea_id,
                                     user_id |-> user_id, row |-> NULL]]
  /\ pc' = [pc EXCEPT ![t] = "toggle_lock"]
  /\ out' = NoRet
  /\ UNCHANGED <<ideas, seq, votes, foreign_keys, lock, ntog, base>>

\* Faulty variant of toggle_vote_acquire: the with block entered without
\* waiting for the lock.
toggle_vote_enter_unlocked(t) ==
  /\ pc[t] = "toggle_lock"
  /\ lock' = TRUE
  /\ pc' = [pc EXCEPT ![t] = "toggle_select"]
  /\ out' = NoRet
  /\ UNCHANGED <<ideas, seq, votes, foreign_keys, arg, ntog, base>>

\* line 97: with lock
toggle_vote_acquire(t) ==
  /\ pc[t] = "toggle_lock"
  /\ ~lock
  /\ lock' = TRUE
  /\ pc' = [pc EXCEPT ![t] = "toggle_select"]
  /\ out' = NoRet
  /\ UNCHANGED <<ideas, seq, votes, foreign_keys, arg, ntog, base>>

\* Faulty variant of toggle_vote_select: the lookup in a with lock block of
\* its own, so that the lock is released before the write.
toggle_vote_select_release(t) ==
  /\ pc[t] = "toggle_select"
  /\ arg' = [arg EXCEPT ![t].row = SelectVote(votes, arg[t].idea_id, arg[t].user_id)]
  /\ pc' = [pc EXCEPT ![t] = "toggle_write"]
  /\ lock' = FALSE
  /\ out' = NoRet
  /\ UNCHANGED <<ideas, seq, votes, foreign_keys, ntog, base>>

\* lines 98-99: row = the caller's vote row on the idea, if any
toggle_vote_select(t) ==
  /\ pc[t] = "toggle_select"
  /\ arg' = [arg EXCEPT ![t].row = SelectVote(votes, arg[t].idea_id, arg[t].user_id)]
  /\ pc' = [pc EXCEPT ![t] = "toggle_write"]
  /\ out' = NoRet
  /\ UNCHANGED <<ideas, seq, votes, foreign_keys, lock, ntog, base>>

\* Faulty variants of ToggleWrite: a row appended whatever was found, with no
\* uniqueness check; and the branches the wrong way round.
ToggleWriteAppend(vs, is, fk, row, idea_id, user_id) ==
  [votes |-> vs (+) SetToBag({<<idea_id, user_id>>}), exc |-> "none"]

ToggleWriteInverted(vs, is, fk, row, idea_id, user_id) ==
  IF row = NULL
  THEN [votes |-> DeleteVote(vs, <<idea_id, user_id>>), exc |-> "none"]
  ELSE LET ins == InsertVote(vs, is, fk, idea_id, user_id)
       IN  [votes |-> ins.votes,
            exc   |-> IF ins.err \in {"ok", "IntegrityError"} THEN "none" ELSE ins.err]

\* Faulty variant of ToggleWrite: the delete branch runs
\* DELETE FROM votes WHERE idea_id = ?, taking every session's vote on the idea.
ToggleWriteWide(vs, is, fk, row, idea_id, user_id) ==
  IF row # NULL
  THEN [votes |-> LET keep == {r \in BagToSet(vs) : r[1] # idea_id}
                  IN  [r \in keep |-> vs[r]],
        exc |-> "none"]
  ELSE LET ins == InsertVote(vs, is, fk, idea_id, user_id)
       IN  [votes |-> ins.votes,
            exc   |-> IF ins.err \in {"ok", "IntegrityError"} THEN "none" ELSE ins.err]

\* lines 100-109: delete the row found, else insert one; of the errors the
\* INSERT can raise, IntegrityError is caught and passed over
ToggleWrite(vs, is, fk, row, idea_id, user_id) ==
  IF row # NULL
  THEN [votes |-> DeleteVote(vs, row), exc |-> "none"]
  ELSE LET ins == InsertVote(vs, is, fk, idea_id, user_id)
       IN  [votes |-> ins.votes,
            exc   |-> IF ins.err \in {"ok", "IntegrityError"} THEN "none" ELSE ins.err]

\* The value {voted: b} that the interface of toggleVote describes.
Voted(b) == IF b THEN <<"True">> ELSE <<"False">>

\* Faulty variant of toggle_vote_write: the function ends with
\* return has_voted(idea_id, user_id), the new state of the pair.
toggle_vote_write_voted(t) ==
  /\ pc[t] = "toggle_write"
  /\ LET w == ToggleWrite(votes, ideas, foreign_keys, arg[t].row,
                          arg[t].idea_id, arg[t].user_id)
     IN  /\ votes' = w.votes
         /\ ntog' = NtogAfterToggle(arg[t].idea_id, arg[t].user_id, w.votes)
         /\ out' = IF w.exc = "none"
                   THEN Return("toggle_vote", <<arg[t].idea_id, arg[t].user_id>>,
                               Voted(has_voted(w.votes, arg[t].idea_id, arg[t].user_id)))
                   ELSE Raise("toggle_vote", <<arg[t].idea_id, arg[t].user_id>>, w.exc)
  /\ lock' = FALSE
  /\ pc' = [pc EXCEPT ![t] = "idle"]
  /\ arg' = [arg EXCEPT ![t] = NoArg]
  /\ UNCHANGED <<ideas, seq, foreign_keys, base>>

\* lines 100-109; leaving the with block releases the lock; the function
\* returns None
toggle_vote_write(t) ==
  /\ pc[t] = "toggle_write"
  /\ LET w == ToggleWrite(votes, ideas, foreign_keys, arg[t].row,
                          arg[t].idea_id, arg[t].user_id)
     IN  /\ votes' = w.votes
         /\ ntog' = NtogAfterToggle(arg[t].idea_id, arg[t].user_id, w.votes)
         /\ out' = IF w.exc = "none"
                   THEN Return("toggle_vote", <<arg[t].idea_id, arg[t].user_id>>, None)
                   ELSE Raise("toggle_vote", <<arg[t].idea_id, arg[t].user_id>>, w.exc)
  /\ lock' = FALSE
  /\ pc' = [pc EXCEPT ![t] = "idle"]
  /\ arg' = [arg EXCEPT ![t] = NoArg]
  /\ UNCHANGED <<ideas, seq, foreign_keys, base>>

\* ------------------------------------------------------------------ delete_idea
delete_idea_call(t) ==
  /\ pc[t] = "idle"
  /\ \E idea_id \in IdeaIds :
       arg' = [arg EXCEPT ![t] = [op |-> "delete_idea", idea_id |-> idea_id]]
  /\ pc' = [pc EXCEPT ![t] = "delete_lock"]
  /\ out' = NoRet
  /\ UNCHANGED <<ideas, seq, votes, foreign_keys, lock, ntog, base>>

\* line 112: with lock
delete_idea_acquire(t) ==
  /\ pc[t] = "delete_lock"
  /\ ~lock
  /\ lock' = TRUE
  /\ pc' = [pc EXCEPT ![t] = "delete_exec"]
  /\ out' = NoRet
  /\ UNCHANGED <<ideas, seq, votes, foreign_keys, arg, ntog, base>>

\* Faulty variant of delete_idea_exec: lock.acquire() with no release, in
\* place of the with block.
delete_idea_exec_keep_lock(t) ==
  /\ pc[t] = "delete_exec"
  /\ ideas' = DeleteIdeaRows(ideas, arg[t].idea_id)
  /\ votes' = CascadeVotes(votes, ideas, foreign_keys, arg[t].idea_id)
  /\ ntog' = IF IdeaExists(ideas, arg[t].idea_id)
             THEN NtogAfterDeleteIdea(arg[t].idea_id) ELSE ntog
  /\ pc' = [pc EXCEPT ![t] = "idle"]
  /\ arg' = [arg EXCEPT ![t] = NoArg]
  /\ out' = Return("delete_idea", <<arg[t].idea_id>>, None)
  /\ UNCHANGED <<seq, foreign_keys, lock, base>>

\* line 114: the DELETE, one statement, with whatever cascade the engine applies;
\* leaving the with block releases the lock; the function returns None
delete_idea_exec(t) ==
  /\ pc[t] = "delete_exec"
  /\ ideas' = DeleteIdeaRows(ideas, arg[t].idea_id)
  /\ votes' = CascadeVotes(votes, ideas, foreign_keys, arg[t].idea_id)
  /\ ntog' = IF IdeaExists(ideas, arg[t].idea_id)
             THEN NtogAfterDeleteIdea(arg[t].idea_id) ELSE ntog
  /\ lock' = FALSE
  /\ pc' = [pc EXCEPT ![t] = "idle"]
  /\ arg' = [arg EXCEPT ![t] = NoArg]
  /\ out' = Return("delete_idea", <<arg[t].idea_id>>, None)
  /\ UNCHANGED <<seq, foreign_keys, base>>

\* ------------------------------------------------------------------ reads, no lock
\* lines 90-93: one SELECT on the shared connection
has_voted_call(t) ==
  /\ pc[t] = "idle"
  /\ \E idea_id \in IdeaIds, user_id \in Users :
       out' = Return("has_voted", <<idea_id, user_id>>,
                     has_voted(votes, idea_id, user_id))
  /\ UNCHANGED <<ideas, seq, votes, foreign_keys, lock, pc, arg, ntog, base>>

\* Faulty variant of fetch_ideas_call: the listing also writes each idea's
\* count back into the stored votes column of the ideas table.
fetch_ideas_refreshing(t) ==
  /\ pc[t] = "idle"
  /\ \E category \in Categories, user_id \in Users :
       out' = Return("fetch_ideas", <<category, user_id>>,
                     fetch_ideas(ideas, votes, category, user_id))
  /\ ideas' = {[i EXCEPT !.votes = VoteCount(votes, i.id)] : i \in ideas}
  /\ UNCHANGED <<seq, votes, foreign_keys, lock, pc, arg, ntog, base>>

\* Faulty variant of fetch_ideas_call: the ideas read as they are now and
\* the votes as they were in an earlier store state (base).
fetch_ideas_torn(t) ==
  /\ pc[t] = "idle"
  /\ \E category \in Categories, user_id \in Users :
       out' = Return("fetch_ideas", <<category, user_id>>,
                     fetch_ideas(ideas, base, category, user_id))
  /\ UNCHANGED <<ideas, seq, votes, foreign_keys, lock, pc, arg, ntog, base>>

\* lines 116-146: one SELECT on the shared connection
fetch_ideas_call(t) ==
  /\ pc[t] = "idle"
  /\ \E category \in Categories, user_id \in Users :
       out' = Return("fetch_ideas", <<category, user_id>>,
                     fetch_ideas(ideas, votes, category, user_id))
  /\ UNCHANGED <<ideas, seq, votes, foreign_keys, lock, pc, arg, ntog, base>>

\* ------------------------------------------------------------------ system
\* After get_conn() on a fresh database file and get_lock().
Init ==
  /\ ideas = {}
  /\ seq = 0
  /\ votes = EmptyBag
  /\ foreign_keys \in BOOLEAN
  /\ lock = FALSE
  /\ pc = [t \in Threads |-> "idle"]
  /\ arg = [t \in Threads |-> NoArg]
  /\ out = NoRet
  /\ ntog = [p \in Pairs |-> -2]
  /\ base = EmptyBag

\* The mutating operations: add_idea, toggle_vote, delete_idea
Writes(t) ==
  \/ add_idea_reject(t)
  \/ add_idea_call(t)
  \/ add_idea_acquire(t)
  \/ add_idea_insert(t)
  \/ toggle_vote_call(t)
  \/ toggle_vote_acquire(t)
  \/ toggle_vote_select(t)
  \/ toggle_vote_write(t)
  \/ delete_idea_call(t)
  \/ delete_idea_acquire(t)
  \/ delete_idea_exec(t)

\* The reading operations: has_voted, fetch_ideas
Reads(t) ==
  \/ has_voted_call(t)
  \/ fetch_ideas_call(t)

Next == \E t \in Threads : Writes(t) \/ Reads(t)

Spec == Init /\ [][Next]_vars

\* The same threads when none of them reads.
NextWrites == \E t \in Threads : Writes(t)

SpecWrites == Init /\ [][NextWrites]_vars

\* The same threads under fair scheduling: a thread inside a with lock block
\* runs on (the interpreter keeps scheduling a runnable thread), and a thread
\* waiting at with lock gets the lock if it is free again and again (fair
\* lock acquisition).
Acquire(t) ==
  \/ add_idea_acquire(t)
  \/ toggle_vote_acquire(t)
  \/ delete_idea_acquire(t)

Locked(t) ==
  \/ add_idea_insert(t)
  \/ toggle_vote_select(t)
  \/ toggle_vote_write(t)
  \/ delete_idea_exec(t)

Fairness == \A t \in Threads : WF_vars(Locked(t)) /\ SF_vars(Acquire(t))

SpecFair == Init /\ [][NextWrites]_vars /\ Fairness

\* Threads that only add and delete, typing texts of up to MaxText characters.
NextText ==
  \E t \in Threads :
    \/ add_idea_reject_text(t)
    \/ add_idea_call_text(t)
    \/ add_idea_acquire(t)
    \/ add_idea_insert(t)
    \/ delete_idea_call(t)
    \/ delete_idea_acquire(t)
    \/ delete_idea_exec(t)

SpecText == Init /\ [][NextText]_vars

\* The same threads with the (idea, user) pairs' toggles counted.
InitTracked ==
  /\ ideas = {}
  /\ seq = 0
  /\ votes = EmptyBag
  /\ foreign_keys \in BOOLEAN
  /\ lock = FALSE
  /\ pc = [t \in Threads |-> "idle"]
  /\ arg = [t \in Threads |-> NoArg]
  /\ out = NoRet
  /\ ntog = [p \in Pairs |-> -1]
  /\ base = EmptyBag

SpecTracked == InitTracked /\ [][NextWrites]_vars

\* Two threads have each called toggle_vote(X, S) once, for the same existing
\* idea X and the same session S, and neither has the lock yet; the store is
\* any store of ideas 1..seq with at most one vote per pair.
Racers == {1, 2}

IdeaRow(id, category, ts) ==
  [id |-> id, category |-> category, content |-> <<"a">>, votes |-> 0,
   created_at |-> ts]

InitRace ==
  /\ seq \in IdeaIds
  /\ \E category \in [1..seq -> Categories], ts \in [1..seq -> Times] :
       ideas = {IdeaRow(i, category[i], ts[i]) : i \in 1..seq}
  /\ votes \in {SetToBag(rows) : rows \in SUBSET ((1..seq) \X Users)}
  /\ foreign_keys \in BOOLEAN
  /\ lock = FALSE
  /\ pc = [t \in Threads |-> IF t \in Racers THEN "toggle_lock" ELSE "idle"]
  /\ \E idea_id \in 1..seq, user_id \in Users :
       arg = [t \in Threads |->
                IF t \in Racers
                THEN [op |-> "toggle_vote", idea_id |-> idea_id,
                      user_id |-> user_id, row |-> NULL]
                ELSE NoArg]
  /\ out = NoRet
  /\ ntog = [p \in Pairs |-> -2]
  /\ base = votes

NextRace ==
  \E t \in Threads :
    \/ toggle_vote_acquire(t)
    \/ toggle_vote_select(t)
    \/ toggle_vote_write(t)

SpecRace == InitRace /\ [][NextRace]_vars

\* ------------------------------------------------------------------ properties
Waiting(t, idea_id, user_id) ==
  /\ pc[t] = "toggle_lock"
  /\ arg[t].idea_id = idea_id
  /\ arg[t].user_id = user_id

Writing(t, idea_id, user_id) ==
  /\ pc[t] = "toggle_write"
  /\ arg[t].idea_id = idea_id
  /\ arg[t].user_id = user_id

\* C1: in every reachable state, whatever the interleaving of add_idea,
\* toggle_vote and delete_idea calls, the votes table holds at most one row
\* for each (idea_id, user_id) pair.
OneVotePerPair == \A p \in BagToSet(votes) : CopiesIn(p, votes) <= 1

\* C1 at work: an idea has been deleted, both users hold a vote on one idea,
\* and two threads are toggling the same voted pair at once, one about to
\* write and the other waiting for the lock.
OneVotePerPairWitness ==
  /\ seq > Cardinality(ideas)
  /\ \E x \in IdeaIds :
       /\ \A u \in Users : CopiesIn(<<x, u>>, votes) = 1
       /\ \E t1, t2 \in Threads : Writing(t1, x, 1) /\ Waiting(t2, x, 1)

\* C2: for an existing idea X and a session S that started with no vote on X,
\* with X not deleted since, has_voted(X,S) is true after an odd number of
\* completed toggle_vote(X,S) calls and false after an even number.
ToggleParity ==
  \A p \in Pairs :
    ntog[p] >= 0 => (has_voted(votes, p[1], p[2]) <=> ntog[p] = 1)

\* C2 at work: with foreign keys enforced (so every idea starts unvoted), a
\* toggle_vote(X,S) has just returned leaving an even count on (X,S), so at
\* least the second toggle of the pair, while the other session holds a vote
\* on X.
ToggleParityWitness ==
  /\ foreign_keys
  /\ out.op = "toggle_vote"
  /\ ntog[<<out.args[1], out.args[2]>>] = 0
  /\ \E u \in Users : u # out.args[2] /\ ntog[<<out.args[1], u>>] = 1

RaceDone == \A t \in Racers : pc[t] = "idle"

Abs(n) == IF n < 0 THEN -n ELSE n

\* C3 as stated: when two threads toggle the same pair (X,S) once each at the
\* same time, no error reaches a caller, the pair ends with at most one vote
\* row, and the vote count of X ends exactly one away from where it began.
RaceNetOne ==
  /\ out.exc = "none"
  /\ RaceDone =>
       /\ CopiesIn(<<out.args[1], out.args[2]>>, votes) <= 1
       /\ Abs(VoteCount(votes, out.args[1]) - VoteCount(base, out.args[1])) = 1

\* C3 as the code has it: no error reaches a caller, the pair ends with at
\* most one vote row, and the two toggles cancel: the pair is voted exactly
\* if it was before and the vote count of X is what it was.
RaceNetZero ==
  /\ out.exc = "none"
  /\ RaceDone =>
       /\ CopiesIn(<<out.args[1], out.args[2]>>, votes) <= 1
       /\ has_voted(votes, out.args[1], out.args[2])
            <=> has_voted(base, out.args[1], out.args[2])
       /\ VoteCount(votes, out.args[1]) = VoteCount(base, out.args[1])

\* C3 at work: both toggles of an unvoted pair have returned, on an idea that
\* carried the other session's vote all along.
RaceNetZeroWitness ==
  /\ RaceDone
  /\ out.op = "toggle_vote"
  /\ ~has_voted(base, out.args[1], out.args[2])
  /\ VoteCount(base, out.args[1]) = 1

\* The rows of the votes table that name an idea, counted user by user.
RECURSIVE RowsOver(_, _)
RowsOver(idea_id, users) ==
  IF users = {} THEN 0
  ELSE LET u == CHOOSE x \in users : TRUE
       IN  CopiesIn(<<idea_id, u>>, votes) + RowsOver(idea_id, users \ {u})

Rows(idea_id) == RowsOver(idea_id, Users)

IdsOf(category) == {i.id : i \in {j \in ideas : j.category = category}}

\* C4: for every store state, category and session, fetch_ideas returns its
\* entries ordered by vote count descending, then created_at ascending, then
\* id ascending: each entry and the one after it are in that order.
RankedOrder ==
  \A category \in Categories, user_id \in Users :
    LET r == fetch_ideas(ideas, votes, category, user_id)
    IN  \A k \in 1..(Len(r) - 1) :
          \/ Rows(r[k].id) > Rows(r[k + 1].id)
          \/ /\ Rows(r[k].id) = Rows(r[k + 1].id)
             /\ r[k].created_at < r[k + 1].created_at
          \/ /\ Rows(r[k].id) = Rows(r[k + 1].id)
             /\ r[k].created_at = r[k + 1].created_at
             /\ r[k].id < r[k + 1].id

\* C4 at work: a listing of two ideas where the later-created one, with two
\* votes, comes before the earlier one, with one.
RankedOrderWitness ==
  \E category \in Categories :
    LET r == fetch_ideas(ideas, votes, category, 1)
    IN  /\ Len(r) = 2
        /\ Rows(r[1].id) = 2
        /\ Rows(r[2].id) = 1
        /\ r[1].created_at > r[2].created_at

\* C9: for every store state, category C and session S, fetch_ideas(C,S)
\* lists exactly the ideas of category C, each once, each with the current
\* number of vote rows naming it and with i_voted true exactly when S has a
\* vote row on it.
FetchExact ==
  \A category \in Categories, user_id \in Users :
    LET r == fetch_ideas(ideas, votes, category, user_id)
    IN  /\ {r[k].id : k \in DOMAIN r} = IdsOf(category)
        /\ Len(r) = Cardinality(IdsOf(category))
        /\ \A k \in DOMAIN r :
             /\ r[k].votes = Rows(r[k].id)
             /\ r[k].i_voted <=> CopiesIn(<<r[k].id, user_id>>, votes) > 0

\* C9 at work: one idea per category; the food listing for session 1 shows a
\* single idea with two votes, one of them session 1's.
FetchExactWitness ==
  /\ IdsOf("festival") # {}
  /\ LET r == fetch_ideas(ideas, votes, "food", 1)
     IN  Len(r) = 1 /\ r[1].votes = 2 /\ r[1].i_voted

\* The step in which thread t's call executes its statement and returns.
AddStep(t)    == pc[t] = "add_insert" /\ pc'[t] = "idle"
ToggleStep(t) == pc[t] = "toggle_write" /\ pc'[t] = "idle"
DeleteStep(t) == pc[t] = "delete_exec" /\ pc'[t] = "idle"

\* C5: delete_idea(X) on an existing idea X removes X and, in the same step,
\* every vote row whose idea_id is X: once it has run, X is gone and no vote
\* row names X, so X gone with votes left behind is never seen.
DeleteCascades ==
  [][\A t \in Threads :
       DeleteStep(t) /\ IdeaExists(ideas, arg[t].idea_id) =>
         /\ ~IdeaExists(ideas', arg[t].idea_id)
         /\ \A p \in BagToSet(votes') : p[1] # arg[t].idea_id]_vars

\* C6: toggle_vote(X,S) on an id X that names no idea when it writes (never
\* created, or deleted meanwhile) raises nothing and changes nothing: ideas
\* and votes stay as they were.
ToggleMissingNoOp ==
  [][\A t \in Threads :
       ToggleStep(t) /\ ~IdeaExists(ideas, arg[t].idea_id) =>
         /\ out'.exc = "none"
         /\ ideas' = ideas
         /\ votes' = votes]_vars

IsBlank(text) == text = None \/ \A k \in 1..Len(text) : text[k] = " "

\* C7: add_idea with text that is absent, empty or all whitespace returns
\* False without raising, and leaves ideas, votes and the next id untouched.
BlankRejected ==
  [][out'.op = "add_idea" /\ IsBlank(out'.args[1]) =>
       /\ out'.exc = "none"
       /\ out'.val = FALSE
       /\ ideas' = ideas
       /\ votes' = votes
       /\ seq' = seq]_vars

\* C7 at work: add_idea(" ") has just returned False on a store that holds an
\* idea and a vote.
BlankRejectedWitness ==
  /\ out.op = "add_idea"
  /\ out.args = <<(<<" ">>)>>
  /\ out.val = FALSE
  /\ ideas # {}
  /\ votes # EmptyBag

\* C8: add_idea with non-blank text returns True and creates exactly one
\* idea, which fetch_ideas of its category then lists, for every session,
\* with vote count 0 and i_voted false.
AddAppearsUnvoted ==
  [][\A t \in Threads :
       AddStep(t) =>
         /\ out'.exc = "none"
         /\ out'.val = TRUE
         /\ Cardinality(ideas' \ ideas) = 1
         /\ ideas \subseteq ideas'
         /\ \A new \in ideas' \ ideas, user_id \in Users :
              LET r == fetch_ideas(ideas', votes', arg[t].category, user_id)
              IN  \E k \in DOMAIN r :
                    r[k].id = new.id /\ r[k].votes = 0 /\ ~r[k].i_voted]_vars

\* C10: delete_idea(X) leaves no idea X behind, and when there is no idea X
\* (never created, or already deleted) it raises nothing and changes nothing,
\* so a repeated delete_idea(X) leaves the state of the first.
DeleteIdempotent ==
  [][\A t \in Threads :
       DeleteStep(t) =>
         /\ out'.exc = "none"
         /\ ~IdeaExists(ideas', arg[t].idea_id)
         /\ ~IdeaExists(ideas, arg[t].idea_id) =>
              ideas' = ideas /\ votes' = votes /\ seq' = seq]_vars

\* C10 at work: delete_idea has just returned for an id that was handed out
\* and is gone, on a store that still holds another idea and a vote on it.
DeleteIdempotentWitness ==
  /\ out.op = "delete_idea"
  /\ out.args[1] <= seq
  /\ ~IdeaExists(ideas, out.args[1])
  /\ \E i \in ideas : \E u \in Users : BagIn(<<i.id, u>>, votes)

\* C11: has_voted and fetch_ideas are pure reads. A step in which one of them
\* returns leaves the ideas table, the votes table, the id sequence and the
\* lock as they were; the value it returns is the value the same call returns
\* on the store it leaves behind; and when the step before it returned the
\* same call with the same arguments, with nothing in between, the two
\* returned values are equal, entry by entry in the same order.
PureReads ==
  [][out'.op \in {"has_voted", "fetch_ideas"} =>
       /\ ideas' = ideas /\ votes' = votes /\ seq' = seq /\ lock' = lock
       /\ out'.op = "has_voted" =>
            out'.val = has_voted(votes', out'.args[1], out'.args[2])
       /\ out'.op = "fetch_ideas" =>
            out'.val = fetch_ideas(ideas', votes', out'.args[1], out'.args[2])
       /\ (out.op = out'.op /\ out.args = out'.args) => out'.val = out.val]_vars

\* C11 at work: fetch_ideas has just returned a two-entry listing led by a
\* voted idea while another thread is inside toggle_vote, between its lookup
\* and its write.
PureReadsWitness ==
  /\ out.op = "fetch_ideas"
  /\ Len(out.val) = 2
  /\ out.val[1].votes >= 1
  /\ \E t \in Threads : pc[t] = "toggle_write"

\* C12 as stated: toggle_vote(X,S) returns to its caller the new state of the
\* pair: the returned value says voted exactly when S holds a vote on X once
\* the call has completed.
ToggleReturnsVoted ==
  [][\A t \in Threads :
       ToggleStep(t) =>
         out'.val = Voted(has_voted(votes', arg[t].idea_id, arg[t].user_id))]_vars

\* C12 amended: toggle_vote(X,S) returns None to its caller and raises
\* nothing, whether the call left the pair voted or unvoted; the new state
\* of the pair is not part of what the call returns.
ToggleReturnsNone ==
  [][\A t \in Threads :
       ToggleStep(t) =>
         /\ out'.op = "toggle_vote"
         /\ out'.args = <<arg[t].idea_id, arg[t].user_id>>
         /\ out'.exc = "none"
         /\ out'.val = None]_vars

\* C12 at work: toggle_vote has just returned None for a pair of an existing
\* idea that the call left voted, while the idea's other pair is unvoted.
ToggleReturnsNoneWitness ==
  /\ out.op = "toggle_vote"
  /\ out.val = None
  /\ IdeaExists(ideas, out.args[1])
  /\ has_voted(votes, out.args[1], out.args[2])
  /\ \E u \in Users : ~has_voted(votes, out.args[1], u)

\* C13: suggestion ids are unique and handed out in increasing order, never
\* again after a delete. At every step no two stored ideas share an id, every
\* stored id is at most the largest id handed out so far, that largest id
\* never goes down (a delete does not lower it), and an idea that appears in
\* the step has an id strictly above it, so above every id ever handed out,
\* those of deleted ideas included.
IdsNeverReused ==
  [][/\ \A i, j \in ideas' : i.id = j.id => i = j
     /\ \A i \in ideas : i.id <= seq
     /\ seq' >= seq
     /\ \A n \in ideas' \ ideas :
          /\ n.id > seq
          /\ n.id <= seq'
          /\ \A i \in ideas : n.id > i.id]_vars

\* C13 at work: add_idea has just returned True and the idea it stored, with
\* id 2, is the only one left: idea 1 was deleted before and its id was not
\* handed out again.
IdsNeverReusedWitness ==
  /\ out.op = "add_idea"
  /\ out.val = TRUE
  /\ seq = 2
  /\ Cardinality(ideas) = 1
  /\ \A i \in ideas : i.id = 2

\* C14: in every reachable state every stored idea has content that is not
\* empty and neither begins nor ends with whitespace.
ContentTrimmed ==
  \A i \in ideas :
    /\ i.content # <<>>
    /\ ~IsSpace(i.content[1])
    /\ ~IsSpace(i.content[Len(i.content)])

\* C14 at work: add_idea has just returned True for a text typed with
\* whitespace around it, and what is stored is shorter than what was typed.
ContentTrimmedWitness ==
  /\ out.op = "add_idea"
  /\ out.val = TRUE
  /\ Len(out.args[1]) = MaxText
  /\ IsSpace(out.args[1][1]) \/ IsSpace(out.args[1][MaxText])
  /\ \E i \in ideas : i.id = seq /\ Len(i.content) < MaxText

\* Thread t is inside the with lock block of a mutating operation.
InSection(t) == pc[t] \in {"add_insert", "toggle_select", "toggle_write", "delete_exec"}

\* C15: add_idea, toggle_vote and delete_idea run under one global lock. At
\* every step at most one thread is inside a mutating section, the lock is
\* held exactly when one is, and a step that changes the ideas table, the
\* votes table or the id sequence is taken with the lock held, by the one
\* thread inside its section, which leaves the section in that step.
MutualExclusion ==
  [][/\ Cardinality({t \in Threads : InSection(t)}) <= 1
     /\ lock <=> \E t \in Threads : InSection(t)
     /\ (ideas' # ideas \/ votes' # votes \/ seq' # seq) =>
          /\ lock
          /\ \E t \in Threads : InSection(t) /\ pc'[t] = "idle"]_vars

\* C15 at work: one thread is inside toggle_vote, between lookup and write,
\* holding the lock, while another waits for the lock in add_idea, on a store
\* that already holds an idea.
MutualExclusionWitness ==
  /\ lock
  /\ ideas # {}
  /\ \E t1, t2 \in Threads : pc[t1] = "toggle_write" /\ pc[t2] = "add_lock"

\* C16: the lookup and the write of toggle_vote are one atomic unit with
\* respect to the other mutating operations. While a thread is between its
\* lookup and its write for the pair (X,S): what it found is still the state
\* of the pair; a step that leaves it there changes neither table nor the
\* id sequence; no other thread is between lookup and write for the same
\* pair having also found no vote; and its write is the opposite of the
\* pair's state at that moment: a voted pair is left unvoted, an unvoted pair
\* is left voted unless the engine refuses the row for a missing idea.
CheckThenActAtomic ==
  [][\A t \in Threads :
       pc[t] = "toggle_write" =>
         LET x == arg[t].idea_id
             s == arg[t].user_id
         IN  /\ (arg[t].row # NULL) <=> has_voted(votes, x, s)
             /\ pc'[t] = "toggle_write" =>
                  ideas' = ideas /\ votes' = votes /\ seq' = seq
             /\ \A u \in Threads \ {t} :
                  pc[u] = "toggle_write" =>
                    ~(arg[u].idea_id = x /\ arg[u].user_id = s
                      /\ arg[u].row = NULL /\ arg[t].row = NULL)
             /\ ToggleStep(t) =>
                  IF has_voted(votes, x, s)
                  THEN ~has_voted(votes', x, s)
                  ELSE \/ has_voted(votes', x, s)
                       \/ foreign_keys /\ ~IdeaExists(ideas, x)]_vars

\* C16 at work: a thread has looked up a pair of an existing idea, found no
\* vote and is about to insert, while another thread that called toggle_vote
\* for the same pair waits for the lock.
CheckThenActAtomicWitness ==
  \E t1, t2 \in Threads :
    /\ pc[t1] = "toggle_write"
    /\ arg[t1].row = NULL
    /\ IdeaExists(ideas, arg[t1].idea_id)
    /\ Waiting(t2, arg[t1].idea_id, arg[t1].user_id)

RECURSIVE RowsAmong(_, _, _)
RowsAmong(vs, idea_id, users) ==
  IF users = {} THEN 0
  ELSE LET u == CHOOSE x \in users : TRUE
       IN  CopiesIn(<<idea_id, u>>, vs) + RowsAmong(vs, idea_id, users \ {u})

\* C18: toggle_vote(X,S) on an existing idea X changes the presence of the
\* (X,S) vote row and nothing else. In the step in which the call writes and
\* returns, the ideas table and the id sequence are unchanged, the number of
\* rows of every other pair is unchanged, the number of rows of (X,S) goes
\* from 0 to 1 or from 1 to 0, the vote count of X changes by exactly 1 and
\* the vote count of every other idea is unchanged.
ToggleFrame ==
  [][\A t \in Threads :
       (ToggleStep(t) /\ IdeaExists(ideas, arg[t].idea_id)) =>
         LET x == arg[t].idea_id
             s == arg[t].user_id
         IN  /\ ideas' = ideas
             /\ seq' = seq
             /\ \A p \in (Pairs \cup BagToSet(votes) \cup BagToSet(votes')) \ {<<x, s>>} :
                  CopiesIn(p, votes') = CopiesIn(p, votes)
             /\ <<CopiesIn(<<x, s>>, votes), CopiesIn(<<x, s>>, votes')>>
                  \in {<<0, 1>>, <<1, 0>>}
             /\ Abs(RowsAmong(votes', x, Users) - RowsAmong(votes, x, Users)) = 1
             /\ \A y \in IdeaIds \ {x} :
                  RowsAmong(votes', y, Users) = RowsAmong(votes, y, Users)]_vars

\* C18 at work: toggle_vote has just returned after taking back a session's
\* vote on an existing idea; the other session's vote on that idea and a vote
\* on another idea are still there.
ToggleFrameWitness ==
  /\ out.op = "toggle_vote"
  /\ IdeaExists(ideas, out.args[1])
  /\ ~has_voted(votes, out.args[1], out.args[2])
  /\ \E u \in Users \ {out.args[2]} : has_voted(votes, out.args[1], u)
  /\ \E y \in IdeaIds \ {out.args[1]} : Rows(y) >= 1

====
